---- MODULE Spec2Model ----
(***************************************************************************)
(* The entity-component engine of src/ecs.ts (class ECS): the component    *)
(* registry, the per-type component stores, the entity bitmask index and   *)
(* the required/optional query.                                            *)
(*                                                                         *)
(* A JavaScript Map<EntityId, bigint> iterates in insertion order, so      *)
(* entityBitmasks is a sequence of [entity, bitmask] entries.  The other   *)
(* maps are only read by key and are functions.  A type name is a sequence *)
(* of characters, so that pascalCaseToCamelCase really rewrites it.        *)
(***************************************************************************)
EXTENDS Integers, Sequences, FiniteSets, TLC

VARIABLES componentStores, componentIndices, entityBitmasks,
          nextComponentIndex, nextEntityId, allowedComponents,
          lifecycle, ret

engine == <<componentStores, componentIndices, entityBitmasks,
            nextComponentIndex, nextEntityId, allowedComponents>>

vars == <<componentStores, componentIndices, entityBitmasks,
          nextComponentIndex, nextEntityId, allowedComponents,
          lifecycle, ret>>

(***************************************************************************)
(* Bounds and input sets.                                                  *)
(***************************************************************************)
\* createEntity is called while nextEntityId < MaxEntities.
MaxEntities == 2

\* ECS.create is given at most MaxAllowed component definitions.
MaxAllowed == 4

\* The entity ids a caller passes to deleteEntity, addComponent and
\* removeComponent; createEntity returns both of them in a long enough run.
EntityIds == {0, 1}

\* Type names, as character sequences.
PositionName == <<"P", "o", "s">>
LowerPositionName == <<"p", "o", "s">>
HealthName == <<"H", "p">>

(***************************************************************************)
(* JavaScript values.                                                      *)
(***************************************************************************)
\* undefined, as a record no component instance equals.
Undefined == [undefined |-> TRUE]

\* String.prototype.toLowerCase on one character.
toLowerCase(c) ==
  CASE c = "P" -> "p"
    [] c = "H" -> "h"
    [] OTHER -> c

\* src/utils.ts: first character lower-cased, the rest unchanged.
pascalCaseToCamelCase(str) ==
  IF Len(str) = 0 THEN str
  ELSE <<toLowerCase(Head(str))>> \o Tail(str)

\* defineComponent<T>()(name): the definition and its create().
defineComponent(name) == [type |-> name]

ComponentCreate(def, data) == [COMPONENT_TOKEN |-> def.type, data |-> data]

Position == defineComponent(PositionName)
LowerPosition == defineComponent(LowerPositionName)
Health == defineComponent(HealthName)

\* The definitions callers use; Health is registered by no engine here.
ComponentDefs == {Position, LowerPosition, Health}

\* The component values callers pass (two payloads for Position).
ComponentInstances ==
  { ComponentCreate(Position, 1), ComponentCreate(Position, 2),
    ComponentCreate(LowerPosition, 1), ComponentCreate(Health, 1) }

(***************************************************************************)
(* Map helpers.                                                            *)
(***************************************************************************)
EmptyMap == <<>>

MapHas(m, k) == k \in DOMAIN m

MapGet(m, k) == IF k \in DOMAIN m THEN m[k] ELSE Undefined

MapSet(m, k, v) == [x \in (DOMAIN m) \cup {k} |-> IF x = k THEN v ELSE m[x]]

MapDelete(m, k) == [x \in (DOMAIN m) \ {k} |-> m[x]]

\* Map<EntityId, bigint> in insertion order.
MaskKeys(m) == {m[i].entity : i \in 1 .. Len(m)}

MaskHas(m, e) == e \in MaskKeys(m)

\* entityBitmasks.get(entity) || 0n
MaskGetOrZero(m, e) ==
  IF MaskHas(m, e)
  THEN (CHOOSE x \in {m[i] : i \in 1 .. Len(m)} : x.entity = e).bitmask
  ELSE 0

\* Map.set: an existing key keeps its place, a new key goes last.
MaskSet(m, e, b) ==
  IF MaskHas(m, e)
  THEN [i \in 1 .. Len(m) |->
          IF m[i].entity = e THEN [entity |-> e, bitmask |-> b] ELSE m[i]]
  ELSE Append(m, [entity |-> e, bitmask |-> b])

\* Map.delete
MaskDelete(m, e) == SelectSeq(m, LAMBDA x : x.entity # e)

(***************************************************************************)
(* bigint bit arithmetic on non-negative masks.                            *)
(***************************************************************************)
\* 1n << index
ShiftOne(index) == 2 ^ index

RECURSIVE BitAnd(_, _)
BitAnd(a, b) ==
  IF a = 0 \/ b = 0 THEN 0
  ELSE (a % 2) * (b % 2) + 2 * BitAnd(a \div 2, b \div 2)

RECURSIVE BitOr(_, _)
BitOr(a, b) ==
  IF a = 0 THEN b
  ELSE IF b = 0 THEN a
  ELSE (IF a % 2 = 1 \/ b % 2 = 1 THEN 1 ELSE 0) + 2 * BitOr(a \div 2, b \div 2)

\* a & ~b for bigints: the bits of a that are not in b.
BitAndNot(a, b) == a - BitAnd(a, b)

(***************************************************************************)
(* The engine object.  An operation is an operator from the object (and    *)
(* its arguments) to an outcome [this, threw, value]: the object after the *)
(* call, whether the call raised, and what it returned.                    *)
(***************************************************************************)
This ==
  [ componentStores |-> componentStores,
    componentIndices |-> componentIndices,
    entityBitmasks |-> entityBitmasks,
    nextComponentIndex |-> nextComponentIndex,
    nextEntityId |-> nextEntityId,
    allowedComponents |-> allowedComponents ]

\* new ECS(): the field initialisers.
NewECS ==
  [ componentStores |-> EmptyMap,
    componentIndices |-> EmptyMap,
    entityBitmasks |-> <<>>,
    nextComponentIndex |-> 0,
    nextEntityId |-> 0,
    allowedComponents |-> EmptyMap ]

Returned(this, value) == [this |-> this, threw |-> FALSE, value |-> value]

Thrown(this) == [this |-> this, threw |-> TRUE, value |-> Undefined]

\* A faulty registerComponentType: no check for an index the type has.
registerComponentTypeAgain(this, componentDef) ==
  [this EXCEPT
     !.componentIndices = MapSet(@, componentDef.type, this.nextComponentIndex),
     !.nextComponentIndex = @ + 1,
     !.allowedComponents = MapSet(@, componentDef.type, componentDef)]

registerComponentType(this, componentDef) ==
  IF ~MapHas(this.componentIndices, componentDef.type)
  THEN [this EXCEPT
          !.componentIndices = MapSet(@, componentDef.type, this.nextComponentIndex),
          !.nextComponentIndex = @ + 1,
          !.allowedComponents = MapSet(@, componentDef.type, componentDef)]
  ELSE this

RECURSIVE RegisterEach(_, _)
RegisterEach(ecs, defs) ==
  IF defs = <<>> THEN ecs
  ELSE RegisterEach(registerComponentType(ecs, Head(defs)), Tail(defs))

\* static ECS.create(...allowedComponents)
ECSCreate(allowed) == RegisterEach(NewECS, allowed)

\* A faulty getComponentIndex: an unregistered type gets the next index
\* instead of an error.
getComponentIndexUnchecked(this, type) ==
  IF MapHas(this.componentIndices, type)
  THEN Returned(this, this.componentIndices[type])
  ELSE Returned(this, this.nextComponentIndex)

\* throws when the type has no index
getComponentIndex(this, type) ==
  IF MapHas(this.componentIndices, type)
  THEN Returned(this, this.componentIndices[type])
  ELSE Thrown(this)

\* A faulty addComponent: a type without index is registered on the fly.
addComponentLazyRegister(this, entity, component) ==
  LET tag == component.COMPONENT_TOKEN
      registered == registerComponentType(this, defineComponent(tag))
      index == registered.componentIndices[tag]
      stores == IF ~MapHas(registered.componentStores, tag)
                THEN MapSet(registered.componentStores, tag, EmptyMap)
                ELSE registered.componentStores
      currentBitmask == MaskGetOrZero(registered.entityBitmasks, entity)
  IN Returned(
       [registered EXCEPT
          !.componentStores =
             MapSet(stores, tag, MapSet(stores[tag], entity, component)),
          !.entityBitmasks =
             MaskSet(@, entity, BitOr(currentBitmask, ShiftOne(index)))],
       Undefined)

\* A faulty addComponent: the store is created before the index is
\* resolved, so an unregistered type gets a store and then the error.
addComponentStoreFirst(this, entity, component) ==
  LET tag == component.COMPONENT_TOKEN
      stores == IF ~MapHas(this.componentStores, tag)
                THEN MapSet(this.componentStores, tag, EmptyMap)
                ELSE this.componentStores
      index == getComponentIndex(this, tag)
  IN IF index.threw THEN Thrown([this EXCEPT !.componentStores = stores])
     ELSE
       LET currentBitmask == MaskGetOrZero(this.entityBitmasks, entity)
       IN Returned(
            [this EXCEPT
               !.componentStores =
                  MapSet(stores, tag, MapSet(stores[tag], entity, component)),
               !.entityBitmasks =
                  MaskSet(@, entity, BitOr(currentBitmask, ShiftOne(index.value)))],
            Undefined)

\* A faulty addComponent: a value the entity already has is kept.
addComponentKeepFirst(this, entity, component) ==
  LET tag == component.COMPONENT_TOKEN
      index == getComponentIndex(this, tag)
  IN IF index.threw THEN Thrown(this)
     ELSE
       LET stores == IF ~MapHas(this.componentStores, tag)
                     THEN MapSet(this.componentStores, tag, EmptyMap)
                     ELSE this.componentStores
           written == IF MapHas(stores[tag], entity) THEN stores
                      ELSE MapSet(stores, tag, MapSet(stores[tag], entity, component))
           currentBitmask == MaskGetOrZero(this.entityBitmasks, entity)
       IN Returned(
            [this EXCEPT
               !.componentStores = written,
               !.entityBitmasks =
                  MaskSet(@, entity, BitOr(currentBitmask, ShiftOne(index.value)))],
            Undefined)

addComponent(this, entity, component) ==
  LET tag == component.COMPONENT_TOKEN
      index == getComponentIndex(this, tag)
  IN IF index.threw THEN Thrown(this)
     ELSE
       LET stores == IF ~MapHas(this.componentStores, tag)
                     THEN MapSet(this.componentStores, tag, EmptyMap)
                     ELSE this.componentStores
           written == MapSet(stores, tag, MapSet(stores[tag], entity, component))
           currentBitmask == MaskGetOrZero(this.entityBitmasks, entity)
       IN Returned(
            [this EXCEPT
               !.componentStores = written,
               !.entityBitmasks =
                  MaskSet(@, entity, BitOr(currentBitmask, ShiftOne(index.value)))],
            Undefined)

\* A faulty removeComponent: the entity's bitmask entry is deleted when no
\* bit is left, so a later write puts the entity last in the scan.
removeComponentDroppingEntry(this, entity, component) ==
  LET index == getComponentIndex(this, component.type)
  IN IF index.threw THEN Thrown(this)
     ELSE
       LET stores == IF MapHas(this.componentStores, component.type)
                     THEN MapSet(this.componentStores, component.type,
                                 MapDelete(this.componentStores[component.type], entity))
                     ELSE this.componentStores
           currentBitmask == MaskGetOrZero(this.entityBitmasks, entity)
           cleared == BitAndNot(currentBitmask, ShiftOne(index.value))
       IN Returned(
            [this EXCEPT
               !.componentStores = stores,
               !.entityBitmasks = IF cleared = 0 THEN MaskDelete(@, entity)
                                  ELSE MaskSet(@, entity, cleared)],
            Undefined)

\* A faulty removeComponent: the entity's whole bitmask is cleared.
removeComponentClearMask(this, entity, component) ==
  LET index == getComponentIndex(this, component.type)
  IN IF index.threw THEN Thrown(this)
     ELSE
       LET stores == IF MapHas(this.componentStores, component.type)
                     THEN MapSet(this.componentStores, component.type,
                                 MapDelete(this.componentStores[component.type], entity))
                     ELSE this.componentStores
       IN Returned(
            [this EXCEPT
               !.componentStores = stores,
               !.entityBitmasks = MaskSet(@, entity, 0)],
            Undefined)

\* A faulty removeComponent: the store entry goes, the bit stays.
removeComponentKeepBit(this, entity, component) ==
  LET index == getComponentIndex(this, component.type)
  IN IF index.threw THEN Thrown(this)
     ELSE
       LET stores == IF MapHas(this.componentStores, component.type)
                     THEN MapSet(this.componentStores, component.type,
                                 MapDelete(this.componentStores[component.type], entity))
                     ELSE this.componentStores
           currentBitmask == MaskGetOrZero(this.entityBitmasks, entity)
       IN Returned(
            [this EXCEPT
               !.componentStores = stores,
               !.entityBitmasks = MaskSet(@, entity, currentBitmask)],
            Undefined)

removeComponent(this, entity, component) ==
  LET index == getComponentIndex(this, component.type)
  IN IF index.threw THEN Thrown(this)
     ELSE
       LET stores == IF MapHas(this.componentStores, component.type)
                     THEN MapSet(this.componentStores, component.type,
                                 MapDelete(this.componentStores[component.type], entity))
                     ELSE this.componentStores
           currentBitmask == MaskGetOrZero(this.entityBitmasks, entity)
       IN Returned(
            [this EXCEPT
               !.componentStores = stores,
               !.entityBitmasks =
                  MaskSet(@, entity, BitAndNot(currentBitmask, ShiftOne(index.value)))],
            Undefined)

\* A faulty deleteEntity: only the bitmask entry goes, the stores keep
\* the entity's components.
deleteEntityBitmaskOnly(this, entity) ==
  Returned([this EXCEPT !.entityBitmasks = MaskDelete(@, entity)], Undefined)

deleteEntity(this, entity) ==
  Returned(
    [this EXCEPT
       !.componentStores =
          [tag \in DOMAIN this.componentStores |->
             MapDelete(this.componentStores[tag], entity)],
       !.entityBitmasks = MaskDelete(@, entity)],
    Undefined)

getComponent(this, entity, component) ==
  IF MapHas(this.componentStores, component.type)
  THEN MapGet(this.componentStores[component.type], entity)
  ELSE Undefined

hasComponent(this, entity, component) ==
  IF MapHas(this.componentStores, component.type)
  THEN MapHas(this.componentStores[component.type], entity)
  ELSE FALSE

\* the loop of createEntity: stops at the first addComponent that throws
RECURSIVE AddEach(_, _, _)
AddEach(this, entity, components) ==
  IF components = <<>> THEN Returned(this, entity)
  ELSE LET added == addComponent(this, entity, Head(components))
       IN IF added.threw THEN Thrown(added.this)
          ELSE AddEach(added.this, entity, Tail(components))

\* A faulty createEntity: the smallest id without a bitmask entry is handed
\* out again.
createEntityReusingIds(this, components) ==
  LET entity == CHOOSE n \in 0 .. Len(this.entityBitmasks) :
                  /\ ~MaskHas(this.entityBitmasks, n)
                  /\ \A k \in 0 .. (n - 1) : MaskHas(this.entityBitmasks, k)
      allocated == [this EXCEPT
                      !.nextEntityId = @ + 1,
                      !.entityBitmasks = MaskSet(@, entity, 0)]
  IN AddEach(allocated, entity, components)

createEntity(this, components) ==
  LET entity == this.nextEntityId
      allocated == [this EXCEPT
                      !.nextEntityId = @ + 1,
                      !.entityBitmasks = MaskSet(@, entity, 0)]
  IN AddEach(allocated, entity, components)

(***************************************************************************)
(* queryEntities.  The call's argument list holds component definitions    *)
(* (rest arguments) or arrays of definitions, [array |-> <<...>>].         *)
(***************************************************************************)
ArrayOf(defs) == [array |-> defs]

\* Array.isArray
IsArray(x) == "array" \in DOMAIN x

\* required.reduce(...): throws at the first unregistered type
RECURSIVE ReduceMask(_, _, _)
ReduceMask(this, required, mask) ==
  IF required = <<>> THEN Returned(this, mask)
  ELSE LET index == getComponentIndex(this, Head(required).type)
       IN IF index.threw THEN Thrown(this)
          ELSE ReduceMask(this, Tail(required), BitOr(mask, ShiftOne(index.value)))

\* record[pascalCaseToCamelCase(def.type)] = getComponent(entity, def), per def
RECURSIVE Populate(_, _, _, _)
Populate(this, entity, defs, record) ==
  IF defs = <<>> THEN record
  ELSE Populate(this, entity, Tail(defs),
                MapSet(record, pascalCaseToCamelCase(Head(defs).type),
                       getComponent(this, entity, Head(defs))))

\* A faulty scan: the entries that do not match are not skipped.
RECURSIVE ScanWithoutFilter(_, _, _, _, _)
ScanWithoutFilter(this, entries, requiredMask, required, optional) ==
  IF entries = <<>> THEN <<>>
  ELSE
    LET entity == Head(entries).entity
        rest == ScanWithoutFilter(this, Tail(entries), requiredMask,
                                  required, optional)
    IN <<
         <<entity,
           Populate(this, entity, optional,
                    Populate(this, entity, required, EmptyMap))>>
       >> \o rest

\* the scan of entityBitmasks.entries(), in insertion order
RECURSIVE Scan(_, _, _, _, _)
Scan(this, entries, requiredMask, required, optional) ==
  IF entries = <<>> THEN <<>>
  ELSE
    LET entity == Head(entries).entity
        bitmask == Head(entries).bitmask
        rest == Scan(this, Tail(entries), requiredMask, required, optional)
    IN IF BitAnd(bitmask, requiredMask) # requiredMask THEN rest
       ELSE <<
              <<entity,
                Populate(this, entity, optional,
                         Populate(this, entity, required, EmptyMap))>>
            >> \o rest

\* A faulty reading of the rest arguments: the first one is taken for the
\* parameter reqOrFirst and left out of the list.
RequiredOfWithoutFirst(arguments) ==
  LET reqOrFirst == IF Len(arguments) >= 1 THEN arguments[1] ELSE Undefined
  IN IF IsArray(reqOrFirst) THEN reqOrFirst.array
     ELSE IF arguments = <<>> THEN <<>> ELSE Tail(arguments)

\* the two call shapes: arrays, or rest arguments
RequiredOf(arguments) ==
  LET reqOrFirst == IF Len(arguments) >= 1 THEN arguments[1] ELSE Undefined
  IN IF IsArray(reqOrFirst) THEN reqOrFirst.array ELSE arguments

OptionalOf(arguments) ==
  LET reqOrFirst == IF Len(arguments) >= 1 THEN arguments[1] ELSE Undefined
      optOrSecond == IF Len(arguments) >= 2 THEN arguments[2] ELSE Undefined
  IN IF IsArray(reqOrFirst) /\ IsArray(optOrSecond)
     THEN optOrSecond.array
     ELSE <<>>

\* A faulty queryEntities: a required type without store gets an empty one.
queryEntitiesCreatingStores(this, arguments) ==
  LET required == RequiredOf(arguments)
      optional == OptionalOf(arguments)
      requiredMask == ReduceMask(this, required, 0)
      stores == [tag \in DOMAIN this.componentStores
                           \cup {required[i].type : i \in DOMAIN required} |->
                   IF MapHas(this.componentStores, tag)
                   THEN this.componentStores[tag] ELSE EmptyMap]
  IN IF requiredMask.threw THEN Thrown(this)
     ELSE Returned([this EXCEPT !.componentStores = stores],
                   Scan(this, this.entityBitmasks, requiredMask.value,
                        required, optional))

queryEntities(this, arguments) ==
  LET required == RequiredOf(arguments)
      optional == OptionalOf(arguments)
      requiredMask == ReduceMask(this, required, 0)
  IN IF requiredMask.threw THEN Thrown(this)
     ELSE Returned(this,
                   Scan(this, this.entityBitmasks, requiredMask.value,
                        required, optional))

(***************************************************************************)
(* The calls a client makes.                                               *)
(***************************************************************************)
\* createEntity's argument lists: none, one type, two types, one type
\* twice, an unregistered type first and an unregistered type last
ComponentLists ==
  { <<>>,
    <<ComponentCreate(Position, 1)>>,
    <<ComponentCreate(Position, 1), ComponentCreate(LowerPosition, 1)>>,
    <<ComponentCreate(Position, 1), ComponentCreate(Position, 2)>>,
    <<ComponentCreate(Health, 1)>>,
    <<ComponentCreate(LowerPosition, 1), ComponentCreate(Health, 1)>> }

\* lists of up to two definitions
DefLists ==
  {<<>>} \cup {<<c>> : c \in ComponentDefs}
         \cup {<<c, d>> : c, d \in ComponentDefs}

\* queryEntities(d1, ..., dn)
RestCalls == DefLists

\* queryEntities([d1, ..., dn]) and queryEntities([d1, ..., dn], [o1, ..., om])
ArrayCalls ==
  {<<ArrayOf(r)>> : r \in DefLists}
    \cup {<<ArrayOf(r), ArrayOf(o)>> : r, o \in DefLists}

QueryCalls == RestCalls \cup ArrayCalls

\* the calls the client makes in a run; the claims about queries also
\* evaluate queryEntities on every call of QueryCalls in every state
ClientQueries ==
  { <<Position>>,
    <<ArrayOf(<<>>)>>,
    <<ArrayOf(<<LowerPosition>>), ArrayOf(<<Position, LowerPosition>>)>>,
    <<Position, Health>> }

\* ECS.create(Position, LowerPosition, Position): Health stays unregistered
AllowedComponents == <<Position, LowerPosition, Position>>

(***************************************************************************)
(* The state machine: one action per public operation.  lifecycle records  *)
(* for each id whether createEntity has returned it and whether            *)
(* deleteEntity was called on it since; ret is the last call's outcome.    *)
(***************************************************************************)
Outcome(op, arguments, r) ==
  [op |-> op, arguments |-> arguments, threw |-> r.threw, value |-> r.value]

Install(this) ==
  /\ componentStores' = this.componentStores
  /\ componentIndices' = this.componentIndices
  /\ entityBitmasks' = this.entityBitmasks
  /\ nextComponentIndex' = this.nextComponentIndex
  /\ nextEntityId' = this.nextEntityId
  /\ allowedComponents' = this.allowedComponents

Init ==
  /\ LET ecs == ECSCreate(AllowedComponents)
       IN /\ componentStores = ecs.componentStores
          /\ componentIndices = ecs.componentIndices
          /\ entityBitmasks = ecs.entityBitmasks
          /\ nextComponentIndex = ecs.nextComponentIndex
          /\ nextEntityId = ecs.nextEntityId
          /\ allowedComponents = ecs.allowedComponents
  /\ lifecycle = EmptyMap
  /\ ret = [op |-> "create", arguments |-> <<>>, threw |-> FALSE, value |-> Undefined]

CreateEntity ==
  \E components \in ComponentLists :
    /\ nextEntityId < MaxEntities
    /\ LET r == createEntity(This, components)
       IN /\ Install(r.this)
          /\ ret' = Outcome("createEntity", <<>>, r)
          /\ lifecycle' = IF r.threw THEN lifecycle
                          ELSE MapSet(lifecycle, r.value, "live")

DeleteEntity ==
  \E entity \in EntityIds :
    LET r == deleteEntity(This, entity)
    IN /\ Install(r.this)
       /\ ret' = Outcome("deleteEntity", <<>>, r)
       /\ lifecycle' = IF MapHas(lifecycle, entity)
                       THEN MapSet(lifecycle, entity, "deleted")
                       ELSE lifecycle

AddComponent ==
  \E entity \in EntityIds, component \in ComponentInstances :
    LET r == addComponent(This, entity, component)
    IN /\ Install(r.this)
       /\ ret' = Outcome("addComponent", <<>>, r)
       /\ UNCHANGED lifecycle

RemoveComponent ==
  \E entity \in EntityIds, component \in ComponentDefs :
    LET r == removeComponent(This, entity, component)
    IN /\ Install(r.this)
       /\ ret' = Outcome("removeComponent", <<>>, r)
       /\ UNCHANGED lifecycle

QueryEntities ==
  \E arguments \in ClientQueries :
    LET r == queryEntities(This, arguments)
    IN /\ Install(r.this)
       /\ ret' = Outcome("queryEntities", arguments, r)
       /\ UNCHANGED lifecycle

Next ==
  \/ CreateEntity
  \/ DeleteEntity
  \/ AddComponent
  \/ RemoveComponent
  \/ QueryEntities

Spec == Init /\ [][Next]_vars

(***************************************************************************)
(* Vocabulary of the properties.                                           *)
(***************************************************************************)
\* every id a call has named, createEntity has allocated or the index holds
KnownIds ==
  EntityIds \cup (0 .. (nextEntityId - 1)) \cup MaskKeys(entityBitmasks)

RegisteredDefs == {d \in ComponentDefs : MapHas(componentIndices, d.type)}

AllRegistered(defs) == \A i \in DOMAIN defs : defs[i] \in RegisteredDefs

\* ((bitmask >> index) & 1) == 1
BitIsSet(bitmask, index) == (bitmask \div (2 ^ index)) % 2 = 1

\* the calls of queryEntities whose required list is `required`: rest
\* arguments, one array, and two arrays with one optional type
CallsRequiring(required) ==
  {required, <<ArrayOf(required)>>}
    \cup {<<ArrayOf(required), ArrayOf(<<d>>)>> : d \in ComponentDefs}

\* the entity ids of a query result
IdsOf(result) == {result[i][1] : i \in DOMAIN result}

\* a record field that is there and not undefined
FieldPresent(record, key) == MapHas(record, key) /\ record[key] # Undefined

\* the ids createEntity has returned and deleteEntity was called on since
DeletedIds == {e \in DOMAIN lifecycle : lifecycle[e] = "deleted"}

LiveIds == {e \in DOMAIN lifecycle : lifecycle[e] = "live"}

\* some store holds an entry for e
HasStoreEntry(e) ==
  \E tag \in DOMAIN componentStores : MapHas(componentStores[tag], e)

(***************************************************************************)
(* C1.  Invariant I1: for every entity id e and registered type t,         *)
(* hasComponent(e, t) is true iff bit index(t) of e's bitmask is set (no   *)
(* bitmask entry counts as all bits clear), after every public operation,  *)
(* also for ids createEntity never returned or that were deleted.          *)
(* The code breaks it: addComponent on an id not yet allocated writes the  *)
(* store, and the later createEntity that returns the id resets the        *)
(* bitmask to 0n without clearing the store.                               *)
(***************************************************************************)
C1_I1_IndexStoreConsistency ==
  \A e \in KnownIds, t \in RegisteredDefs :
    hasComponent(This, e, t)
      <=> BitIsSet(MaskGetOrZero(entityBitmasks, e), componentIndices[t.type])

(***************************************************************************)
(* C2.  For every non-empty list of registered required types, in both     *)
(* call shapes, queryEntities returns exactly the ids e with               *)
(* hasComponent(e, t) for every required t.  Fails where I1 fails (C1).    *)
(***************************************************************************)
C2_QuerySupersetRule ==
  \A required \in DefLists :
    (required # <<>> /\ AllRegistered(required)) =>
      \A arguments \in {required, <<ArrayOf(required)>>} :
        LET r == queryEntities(This, arguments)
        IN /\ ~r.threw
           /\ IdsOf(r.value) =
                {e \in KnownIds :
                   \A i \in DOMAIN required : hasComponent(This, e, required[i])}

(***************************************************************************)
(* C3.  Once deleteEntity(e) was called on an entity createEntity          *)
(* returned, hasComponent(e, t) is false for every registered t and e is   *)
(* in no query result, whatever calls follow.  The code lets a later       *)
(* addComponent(e, ...) bring e back.                                      *)
(***************************************************************************)
C3_DeletionCompleteness ==
  \A e \in DeletedIds :
    /\ \A t \in RegisteredDefs : ~hasComponent(This, e, t)
    /\ \A arguments \in QueryCalls :
         LET r == queryEntities(This, arguments)
         IN ~r.threw => e \notin IdsOf(r.value)

(***************************************************************************)
(* C4.  A query with an empty required list returns an empty result, in    *)
(* both call shapes and with any optional list.  The code's empty mask     *)
(* matches every entity, so it returns them all.                           *)
(***************************************************************************)
C4_EmptyRequiredIsEmpty ==
  \A arguments \in QueryCalls :
    RequiredOf(arguments) = <<>> =>
      LET r == queryEntities(This, arguments)
      IN ~r.threw => r.value = <<>>

(***************************************************************************)
(* C5.  addComponent, removeComponent and queryEntities (for a required    *)
(* type) given an unregistered type raise, and the engine is exactly as    *)
(* before the call; the failing query returns nothing.                     *)
(***************************************************************************)
C5_UnknownTypeChangesNothing ==
  /\ \A e \in EntityIds, c \in ComponentInstances :
       ~MapHas(componentIndices, c.COMPONENT_TOKEN) =>
         LET r == addComponent(This, e, c)
         IN r.threw /\ r.this = This
  /\ \A e \in EntityIds, d \in ComponentDefs :
       d \notin RegisteredDefs =>
         LET r == removeComponent(This, e, d)
         IN r.threw /\ r.this = This
  /\ \A required \in DefLists :
       ~AllRegistered(required) =>
         \A arguments \in CallsRequiring(required) :
           LET r == queryEntities(This, arguments)
           IN r.threw /\ r.this = This /\ r.value = Undefined
  /\ (ret.threw /\ ret.op \in {"addComponent", "removeComponent", "queryEntities"})
       => ret.value = Undefined

\* an addComponent of an unregistered type has just raised on an engine
\* that holds an entity with a component
C5_Witness ==
  /\ ret.op = "addComponent"
  /\ ret.threw
  /\ \E e \in LiveIds : hasComponent(This, e, Position)

(***************************************************************************)
(* C6.  createEntity is transactional: when one of its initial components  *)
(* has an unregistered type the call raises and the engine is as before.   *)
(* The code has already advanced nextEntityId, created the bitmask entry   *)
(* and stored the earlier components when addComponent raises.             *)
(***************************************************************************)
C6_CreateEntityTransactional ==
  [][(ret'.op = "createEntity" /\ ret'.threw) => UNCHANGED engine]_vars

(***************************************************************************)
(* C7.  With required R and optional O, all registered, the result has the *)
(* same entities as the query for R alone, and in each record the field of *)
(* an optional type o is present iff the entity holds o, and then equals   *)
(* getComponent(e, o).  Fails when two optional types share a field key    *)
(* (C17): the later one overwrites the earlier one's field.                *)
(***************************************************************************)
C7_OptionalFields ==
  \A required, optional \in DefLists :
    (AllRegistered(required) /\ AllRegistered(optional)) =>
      LET with == queryEntities(This, <<ArrayOf(required), ArrayOf(optional)>>)
          without == queryEntities(This, <<ArrayOf(required)>>)
      IN /\ ~with.threw /\ ~without.threw
         /\ Len(with.value) = Len(without.value)
         /\ \A i \in DOMAIN with.value :
              LET e == with.value[i][1]
                  record == with.value[i][2]
              IN /\ e = without.value[i][1]
                 /\ \A k \in DOMAIN optional :
                      LET key == pascalCaseToCamelCase(optional[k].type)
                      IN /\ FieldPresent(record, key)
                              <=> hasComponent(This, e, optional[k])
                         /\ FieldPresent(record, key)
                              => record[key] = getComponent(This, e, optional[k])

(***************************************************************************)
(* C8.  queryEntities raises when a type of the optional list is           *)
(* unregistered.  The code never resolves the index of an optional type:   *)
(* it reads the store with getComponent, which yields undefined.           *)
(***************************************************************************)
C8_UnknownOptionalRaises ==
  \A arguments \in QueryCalls :
    ~AllRegistered(OptionalOf(arguments)) => queryEntities(This, arguments).threw

(***************************************************************************)
(* C9.  Entity ids are never reused: a createEntity that returns, returns  *)
(* an id greater than every id createEntity returned before, whatever      *)
(* deletions and failed createEntity calls came between; the first         *)
(* createEntity call made on an engine returns 0.                          *)
(***************************************************************************)
C9_IdsNeverReused ==
  [][(ret'.op = "createEntity" /\ ~ret'.threw) =>
       /\ \A e \in DOMAIN lifecycle : ret'.value > e
       /\ ret'.value >= 0
       /\ nextEntityId = 0 => ret'.value = 0]_vars

\* createEntity has returned id 1 after entity 0 was deleted and its
\* bitmask entry removed: the free id 0 was not handed out again
C9_Witness ==
  /\ ret.op = "createEntity"
  /\ ~ret.threw
  /\ ret.value = 1
  /\ 0 \in DeletedIds
  /\ ~MaskHas(entityBitmasks, 0)

(***************************************************************************)
(* C10.  Lifecycle nonexistent -> live -> deleted: an id has a bitmask     *)
(* entry or a store entry only if createEntity returned it and             *)
(* deleteEntity was not called on it since.  The code's addComponent and   *)
(* removeComponent create entries for any id they are given.               *)
(***************************************************************************)
C10_OnlyLiveIdsHaveEntries ==
  \A e \in KnownIds :
    (MaskHas(entityBitmasks, e) \/ HasStoreEntry(e)) => e \in LiveIds

(***************************************************************************)
(* Construction on its own: the argument list of ECS.create is drawn from  *)
(* every list of at most MaxAllowed definitions, repeats included, and the *)
(* one action runs ECS.create on it.  ret.arguments holds the list.        *)
(***************************************************************************)
RECURSIVE ListsUpTo(_)
ListsUpTo(n) ==
  IF n = 0 THEN {<<>>}
  ELSE LET shorter == ListsUpTo(n - 1)
       IN shorter \cup {Append(l, d) : l \in shorter, d \in ComponentDefs}

InitCreate ==
  /\ componentStores = NewECS.componentStores
  /\ componentIndices = NewECS.componentIndices
  /\ entityBitmasks = NewECS.entityBitmasks
  /\ nextComponentIndex = NewECS.nextComponentIndex
  /\ nextEntityId = NewECS.nextEntityId
  /\ allowedComponents = NewECS.allowedComponents
  /\ lifecycle = EmptyMap
  /\ \E allowed \in ListsUpTo(MaxAllowed) :
       ret = [op |-> "new", arguments |-> allowed, threw |-> FALSE,
              value |-> Undefined]

Create ==
  /\ ret.op = "new"
  /\ Install(ECSCreate(ret.arguments))
  /\ ret' = [ret EXCEPT !.op = "create"]
  /\ UNCHANGED lifecycle

NextCreate == Create

SpecCreate == InitCreate /\ [][NextCreate]_vars

(***************************************************************************)
(* C11.  Registration is idempotent and injective: ECS.create gives each   *)
(* distinct type of its argument list the index equal to its rank in       *)
(* first-seen order from 0, a repeated type keeps its first index and does *)
(* not advance the counter, and no two types share an index.               *)
(***************************************************************************)
\* the number of distinct types before the first occurrence of type
FirstSeenRank(allowed, type) ==
  LET first == CHOOSE i \in DOMAIN allowed :
                 /\ allowed[i].type = type
                 /\ \A j \in 1 .. (i - 1) : allowed[j].type # type
  IN Cardinality({allowed[j].type : j \in 1 .. (first - 1)})

C11_RegistrationIdempotentInjective ==
  ret.op = "create" =>
    LET allowed == ret.arguments
        types == {allowed[i].type : i \in DOMAIN allowed}
    IN /\ DOMAIN componentIndices = types
       /\ \A t \in types : componentIndices[t] = FirstSeenRank(allowed, t)
       /\ nextComponentIndex = Cardinality(types)
       /\ \A t, u \in types : componentIndices[t] = componentIndices[u] => t = u

\* ECS.create(Health, Position, Health, position) has run: the repeated
\* Health kept index 0 and position got index 2
C11_Witness ==
  /\ ret.op = "create"
  /\ ret.arguments = <<Health, Position, Health, LowerPosition>>
  /\ componentIndices[HealthName] = 0
  /\ componentIndices[LowerPositionName] = 2

(***************************************************************************)
(* C12.  Overwrite semantics: for a live entity e, addComponent(e, v1)     *)
(* then addComponent(e, v2) of the same type leaves getComponent(e, type)  *)
(* equal to v2, leaves e's bitmask as it was after the first add, and      *)
(* leaves e exactly once in the queries requiring that type.               *)
(***************************************************************************)
\* how many entries of a query result are for entity e
Occurrences(result, e) == Cardinality({i \in DOMAIN result : result[i][1] = e})

C12_AfterSecondAdd ==
  \A e \in LiveIds, v1, v2 \in ComponentInstances :
    (v1.COMPONENT_TOKEN = v2.COMPONENT_TOKEN
       /\ MapHas(componentIndices, v1.COMPONENT_TOKEN)) =>
      LET def == defineComponent(v1.COMPONENT_TOKEN)
          first == addComponent(This, e, v1)
          second == addComponent(first.this, e, v2)
      IN /\ ~first.threw /\ ~second.threw
         /\ getComponent(second.this, e, def) = v2
         /\ second.this.entityBitmasks = first.this.entityBitmasks
         /\ \A arguments \in {<<def>>, <<ArrayOf(<<def>>)>>} :
              Occurrences(queryEntities(second.this, arguments).value, e) = 1
         /\ Occurrences(
              queryEntities(second.this, <<Position, LowerPosition>>).value, e) <= 1

C12_OverwriteSemantics == [](C12_AfterSecondAdd)

\* an addComponent on the live entity 0, which holds position, has left
\* the second Position payload in the store
C12_Witness ==
  /\ ret.op = "addComponent"
  /\ ~ret.threw
  /\ 0 \in LiveIds
  /\ hasComponent(This, 0, LowerPosition)
  /\ getComponent(This, 0, Position) = ComponentCreate(Position, 2)

(***************************************************************************)
(* C13.  removeComponent(e, t) with a registered t never raises, whether   *)
(* or not e holds t; afterwards hasComponent(e, t) is false and e is in no *)
(* result of a query requiring t, until a later addComponent of type t on  *)
(* e; and calling it twice in a row leaves the same state as calling it    *)
(* once.                                                                   *)
(***************************************************************************)
\* the queries of the property that require the type t
QueriesRequiring(t) ==
  {<<t>>, <<ArrayOf(<<t>>)>>}
    \cup (IF t \in {Position, LowerPosition}
          THEN {<<Position, LowerPosition>>} ELSE {})

\* e holds t for the reads or for the queries: the store entry, or the bit
\* that queryEntities tests
HoldsType(this, e, t) ==
  \/ hasComponent(this, e, t)
  \/ BitIsSet(MaskGetOrZero(this.entityBitmasks, e), this.componentIndices[t.type])

C13_AfterRemove ==
  \A e \in EntityIds, t \in RegisteredDefs :
    LET once == removeComponent(This, e, t)
        twice == removeComponent(once.this, e, t)
    IN /\ ~once.threw
       /\ ~HoldsType(once.this, e, t)
       /\ \A arguments \in QueriesRequiring(t) :
            LET result == queryEntities(once.this, arguments)
            IN ~result.threw /\ e \notin IdsOf(result.value)
       /\ twice = once
       \* in the state as it is, a result of a query requiring t has e only
       \* if e holds t
       /\ (e \in IdsOf(queryEntities(This, <<t>>).value) => HoldsType(This, e, t))

\* e comes to hold t only by an addComponent of type t on e: the call
\* itself, or the one createEntity makes for the id it takes (whether or
\* not a later component of the list makes it throw)
C13_UntilLaterAdd ==
  \A e \in EntityIds, t \in RegisteredDefs :
    (~HoldsType(This, e, t) /\ HoldsType(This', e, t)) =>
      \/ /\ ret'.op = "addComponent"
         /\ ~ret'.threw
         /\ \E c \in ComponentInstances :
              /\ c.COMPONENT_TOKEN = t.type
              /\ This' = addComponent(This, e, c).this
      \/ /\ ret'.op = "createEntity"
         /\ e = nextEntityId

C13_RemoveComponent == [](C13_AfterRemove) /\ [][C13_UntilLaterAdd]_vars

\* a removeComponent has taken position from the live entity 0, which
\* keeps Position, and entity 0 is not in the results requiring position
C13_Witness ==
  /\ ret.op = "removeComponent"
  /\ ~ret.threw
  /\ 0 \in LiveIds
  /\ hasComponent(This, 0, Position)
  /\ ~HoldsType(This, 0, LowerPosition)
  /\ MapHas(componentStores, LowerPositionName)
  /\ 0 \notin IdsOf(queryEntities(This, <<LowerPosition>>).value)

(***************************************************************************)
(* C14.  deleteEntity on an id that was never created or was already       *)
(* deleted does not raise and leaves the whole engine state unchanged;     *)
(* deleting the same entity twice equals deleting it once.                 *)
(***************************************************************************)
C14_DeleteNonLiveIsNoOp ==
  \A e \in EntityIds :
    LET once == deleteEntity(This, e)
        twice == deleteEntity(once.this, e)
    IN /\ ~once.threw
       /\ twice = once
       /\ (e \notin LiveIds => once.this = This)

(***************************************************************************)
(* The engine with its two reads as calls of their own.                    *)
(***************************************************************************)
HasComponent ==
  \E entity \in EntityIds, component \in ComponentDefs :
    /\ ret' = [op |-> "hasComponent", arguments |-> <<entity, component>>,
               threw |-> FALSE, value |-> hasComponent(This, entity, component)]
    /\ UNCHANGED <<engine, lifecycle>>

GetComponent ==
  \E entity \in EntityIds, component \in ComponentDefs :
    /\ ret' = [op |-> "getComponent", arguments |-> <<entity, component>>,
               threw |-> FALSE, value |-> getComponent(This, entity, component)]
    /\ UNCHANGED <<engine, lifecycle>>

NextReads ==
  \/ Next
  \/ HasComponent
  \/ GetComponent

SpecReads == Init /\ [][NextReads]_vars

(***************************************************************************)
(* C15.  hasComponent and getComponent are total pure reads: for any       *)
(* entity id (live, deleted or never created) and any component type they  *)
(* never raise and never change engine state; for an id that is not live   *)
(* they return false and absent respectively; and getComponent(e, t) is    *)
(* non-absent iff hasComponent(e, t) is true.                              *)
(***************************************************************************)
C15_ReadsTotalAndAbsentForNonLive ==
  /\ ret.op \in {"hasComponent", "getComponent"} => ~ret.threw
  /\ \A e \in EntityIds, t \in ComponentDefs :
       (getComponent(This, e, t) # Undefined) <=> hasComponent(This, e, t)
  /\ (ret.op = "hasComponent" /\ ret.arguments[1] \notin LiveIds)
       => ret.value = FALSE
  /\ (ret.op = "getComponent" /\ ret.arguments[1] \notin LiveIds)
       => ret.value = Undefined

(***************************************************************************)
(* C16.  In any reachable state, a successful createEntity(c1..cn) returns *)
(* an entity that holds exactly the set of types of c1..cn and nothing     *)
(* else (hasComponent is false for every other registered type, and the    *)
(* entity with no initial components holds none), and when two initial     *)
(* components have the same type getComponent returns the later one.       *)
(***************************************************************************)
\* the last component of the list whose type is t
LastOfType(components, t) ==
  LET last == CHOOSE i \in DOMAIN components :
                /\ components[i].COMPONENT_TOKEN = t.type
                /\ \A j \in DOMAIN components :
                     components[j].COMPONENT_TOKEN = t.type => j <= i
  IN components[last]

C16_CreateEntityHoldsExactlyItsTypes ==
  \A components \in ComponentLists :
    LET r == createEntity(This, components)
        types == {components[i].COMPONENT_TOKEN : i \in DOMAIN components}
    IN ~r.threw =>
         \A t \in RegisteredDefs :
           /\ hasComponent(r.this, r.value, t) <=> t.type \in types
           /\ t.type \in types =>
                getComponent(r.this, r.value, t) = LastOfType(components, t)

(***************************************************************************)
(* C17.  In every record returned by a query, each required type has its   *)
(* own field whose value is present and equal to getComponent(e, t) at the *)
(* time of the query, and a record has one field per distinct queried      *)
(* type: two distinct types named in one query never end up sharing or     *)
(* overwriting one field (field key = type name with its first letter      *)
(* lower-cased).                                                           *)
(***************************************************************************)
\* the types a call of queryEntities names, required or optional
QueriedTypes(arguments) ==
  {RequiredOf(arguments)[i].type : i \in DOMAIN RequiredOf(arguments)}
    \cup {OptionalOf(arguments)[i].type : i \in DOMAIN OptionalOf(arguments)}

C17_OneFieldPerQueriedType ==
  \A arguments \in QueryCalls :
    LET r == queryEntities(This, arguments)
    IN ~r.threw =>
         \A i \in DOMAIN r.value :
           LET e == r.value[i][1]
               record == r.value[i][2]
           IN /\ \A k \in DOMAIN RequiredOf(arguments) :
                   LET t == RequiredOf(arguments)[k]
                       key == pascalCaseToCamelCase(t.type)
                   IN /\ FieldPresent(record, key)
                      /\ record[key] = getComponent(This, e, t)
              /\ Cardinality(DOMAIN record) = Cardinality(QueriedTypes(arguments))

(***************************************************************************)
(* The runs in which deleteEntity is never called.                         *)
(***************************************************************************)
NextNoDelete ==
  \/ CreateEntity
  \/ AddComponent
  \/ RemoveComponent
  \/ QueryEntities

SpecNoDelete == Init /\ [][NextNoDelete]_vars

(***************************************************************************)
(* C18.  Query results are emitted in creation order: in any run where no  *)
(* entity has been deleted, the entity ids of every query result are in    *)
(* strictly ascending order, regardless of how addComponent and            *)
(* removeComponent calls were interleaved with the createEntity calls.     *)
(***************************************************************************)
StrictlyAscending(result) ==
  \A i, j \in DOMAIN result : i < j => result[i][1] < result[j][1]

RegisteredAtConstruction == ECSCreate(AllowedComponents).componentIndices

\* the positions of the bits set in a bitmask
BitsSet(bitmask) == {i \in 0 .. (nextComponentIndex + 1) : BitIsSet(bitmask, i)}

C19_I2_OnlyRegisteredTypes ==
  /\ componentIndices = RegisteredAtConstruction
  /\ nextComponentIndex = Cardinality(DOMAIN RegisteredAtConstruction)
  /\ DOMAIN componentStores \subseteq DOMAIN RegisteredAtConstruction
  /\ \A k \in DOMAIN entityBitmasks :
       LET bitmask == entityBitmasks[k].bitmask
       IN /\ bitmask >= 0
          /\ bitmask < 2 ^ nextComponentIndex
          /\ \A i \in BitsSet(bitmask) :
               \E type \in DOMAIN RegisteredAtConstruction :
                 RegisteredAtConstruction[type] = i

\* both registered types have a store, entity 0 has both bits set, and the
\* last call was an addComponent of the unregistered Health, which threw
C19_Witness ==
  /\ ret.op = "addComponent"
  /\ ret.threw
  /\ DOMAIN componentStores = {PositionName, LowerPositionName}
  /\ MaskGetOrZero(entityBitmasks, 0) = 3
  /\ 0 \in LiveIds

(***************************************************************************)
(* C20.  deleteEntity(e) on a live e removes e's entry from every          *)
(* component store and removes e's bitmask entry in one call, and leaves   *)
(* the id counter, the registry and every other entity's store entries and *)
(* bitmask unchanged.                                                      *)
(***************************************************************************)
C20_DeleteLiveEntity ==
  \A e \in LiveIds :
    LET r == deleteEntity(This, e)
        after == r.this
    IN /\ ~r.threw
       /\ \A tag \in DOMAIN after.componentStores :
            ~MapHas(after.componentStores[tag], e)
       /\ ~MaskHas(after.entityBitmasks, e)
       /\ after.nextEntityId = nextEntityId
       /\ after.componentIndices = componentIndices
       /\ after.nextComponentIndex = nextComponentIndex
       /\ after.allowedComponents = allowedComponents
       /\ DOMAIN after.componentStores = DOMAIN componentStores
       /\ \A other \in KnownIds \ {e} :
            /\ MaskHas(after.entityBitmasks, other) <=> MaskHas(entityBitmasks, other)
            /\ MaskGetOrZero(after.entityBitmasks, other)
                 = MaskGetOrZero(entityBitmasks, other)
            /\ \A t \in ComponentDefs :
                 getComponent(after, other, t) = getComponent(This, other, t)

\* a deleteEntity has left the created entity 0 without entries while the
\* live entity 1 keeps its Position and its bitmask
C20_Witness ==
  /\ ret.op = "deleteEntity"
  /\ 0 \in DeletedIds
  /\ ~MaskHas(entityBitmasks, 0)
  /\ ~HasStoreEntry(0)
  /\ 1 \in LiveIds
  /\ getComponent(This, 1, Position) = ComponentCreate(Position, 1)
  /\ MaskGetOrZero(entityBitmasks, 1) = 1

(***************************************************************************)
(* The variant with class constructors as types and masks that are native  *)
(* JavaScript numbers (src/unnamed/part_000).  The bitwise operators work  *)
(* on the Int32 of their operands; an Int32 is written here as the set of  *)
(* the positions of its one-bits, 0 .. Int32Bits - 1.  The variables hold  *)
(* the variant's fields of the same names; allowedComponents, which the    *)
(* variant does not have, stays empty.                                     *)
(***************************************************************************)
\* the width of the operands of |, &, ~ and <<
Int32Bits == 32

\* the component classes the program registers, named by their rank
NumTypes == 33

ComponentTypes32 == 0 .. (NumTypes - 1)

\* the classes the callers make components of and ask for
UsedTypes32 == {0, 1, NumTypes - 1}

\* new C(...): an instance knows its constructor
NewComponent32(componentType) == [constructor |-> componentType, data |-> 1]

\* the number 0
Zero32 == {}

\* 1 << index: the shift count is taken modulo 32
ShiftOne32(index) == {index % Int32Bits}

BitOr32(a, b) == a \cup b

BitAnd32(a, b) == a \cap b

\* ~a
BitNot32(a) == (0 .. (Int32Bits - 1)) \ a

\* entityBitmasks.get(entity) || 0
MaskGetOrZero32(m, e) ==
  IF MaskHas(m, e)
  THEN (CHOOSE x \in {m[i] : i \in 1 .. Len(m)} : x.entity = e).bitmask
  ELSE Zero32

registerComponentType32(this, componentType) ==
  IF ~MapHas(this.componentIndices, componentType)
  THEN Returned(
         [this EXCEPT
            !.componentIndices = MapSet(@, componentType, this.nextComponentIndex),
            !.nextComponentIndex = @ + 1],
         Undefined)
  ELSE Returned(this, Undefined)

getComponentIndex32(this, componentType) ==
  IF MapHas(this.componentIndices, componentType)
  THEN Returned(this, this.componentIndices[componentType])
  ELSE Thrown(this)

addComponent32(this, entity, component) ==
  LET componentType == component.constructor
      index == getComponentIndex32(this, componentType)
  IN IF index.threw THEN Thrown(this)
     ELSE
       LET stores == IF ~MapHas(this.componentStores, componentType)
                     THEN MapSet(this.componentStores, componentType, EmptyMap)
                     ELSE this.componentStores
           currentBitmask == MaskGetOrZero32(this.entityBitmasks, entity)
       IN Returned(
            [this EXCEPT
               !.componentStores =
                  MapSet(stores, componentType,
                         MapSet(stores[componentType], entity, component)),
               !.entityBitmasks =
                  MaskSet(@, entity,
                          BitOr32(currentBitmask, ShiftOne32(index.value)))],
            Undefined)

removeComponent32(this, entity, componentType) ==
  LET index == getComponentIndex32(this, componentType)
  IN IF index.threw THEN Thrown(this)
     ELSE
       LET stores == IF MapHas(this.componentStores, componentType)
                     THEN MapSet(this.componentStores, componentType,
                                 MapDelete(this.componentStores[componentType], entity))
                     ELSE this.componentStores
           currentBitmask == MaskGetOrZero32(this.entityBitmasks, entity)
       IN Returned(
            [this EXCEPT
               !.componentStores = stores,
               !.entityBitmasks =
                  MaskSet(@, entity,
                          BitAnd32(currentBitmask, BitNot32(ShiftOne32(index.value))))],
            Undefined)

RECURSIVE AddEach32(_, _, _)
AddEach32(this, entity, components) ==
  IF components = <<>> THEN Returned(this, entity)
  ELSE LET r == addComponent32(this, entity, Head(components))
       IN IF r.threw THEN Thrown(r.this)
          ELSE AddEach32(r.this, entity, Tail(components))

createEntity32(this, components) ==
  LET entity == this.nextEntityId
      allocated == [this EXCEPT
                      !.nextEntityId = @ + 1,
                      !.entityBitmasks = MaskSet(@, entity, Zero32)]
  IN AddEach32(allocated, entity, components)

deleteEntity32(this, entity) ==
  Returned(
    [this EXCEPT
       !.componentStores =
          [componentType \in DOMAIN this.componentStores |->
             MapDelete(this.componentStores[componentType], entity)],
       !.entityBitmasks = MaskDelete(@, entity)],
    Undefined)

getComponent32(this, entity, componentType) ==
  IF MapHas(this.componentStores, componentType)
  THEN MapGet(this.componentStores[componentType], entity)
  ELSE Undefined

hasComponent32(this, entity, componentType) ==
  IF MapHas(this.componentStores, componentType)
  THEN MapHas(this.componentStores[componentType], entity)
  ELSE FALSE

\* componentTypes.reduce(...): throws at the first unregistered type
RECURSIVE ReduceMask32(_, _, _)
ReduceMask32(this, componentTypes, bitmask) ==
  IF componentTypes = <<>> THEN Returned(this, bitmask)
  ELSE LET index == getComponentIndex32(this, Head(componentTypes))
       IN IF index.threw THEN Thrown(this)
          ELSE ReduceMask32(this, Tail(componentTypes),
                            BitOr32(bitmask, ShiftOne32(index.value)))

queryEntities32(this, componentTypes) ==
  LET queryBitmask == ReduceMask32(this, componentTypes, Zero32)
  IN IF queryBitmask.threw THEN Thrown(this)
     ELSE
       LET matches(entry) ==
             BitAnd32(entry.bitmask, queryBitmask.value) = queryBitmask.value
           matching == SelectSeq(this.entityBitmasks, matches)
       IN Returned(this, [i \in 1 .. Len(matching) |-> matching[i].entity])

\* the lists of initial components and of queried classes
ComponentLists32 ==
  {<<>>} \cup {<<NewComponent32(c)>> : c \in UsedTypes32}

QueryLists32 ==
  {<<c>> : c \in {0, NumTypes - 1}} \cup {<<0, NumTypes - 1>>}

\* new ECS()
Init32 ==
  /\ componentStores = NewECS.componentStores
  /\ componentIndices = NewECS.componentIndices
  /\ entityBitmasks = NewECS.entityBitmasks
  /\ nextComponentIndex = NewECS.nextComponentIndex
  /\ nextEntityId = NewECS.nextEntityId
  /\ allowedComponents = NewECS.allowedComponents
  /\ lifecycle = EmptyMap
  /\ ret = [op |-> "new", arguments |-> <<>>, threw |-> FALSE, value |-> Undefined]

\* the program registers its classes one after the other, before it
\* creates entities; a class may be registered again
RegisterComponentType32 ==
  \E componentType \in {0, nextComponentIndex} \cap ComponentTypes32 :
    /\ nextEntityId = 0
    /\ entityBitmasks = <<>>
    /\ LET r == registerComponentType32(This, componentType)
       IN /\ Install(r.this)
          /\ ret' = Outcome("registerComponentType", <<>>, r)
    /\ UNCHANGED lifecycle

CreateEntity32 ==
  \E components \in ComponentLists32 :
    /\ nextComponentIndex = NumTypes
    /\ nextEntityId < MaxEntities
    /\ LET r == createEntity32(This, components)
       IN /\ Install(r.this)
          /\ ret' = Outcome("createEntity", <<>>, r)
          /\ lifecycle' = IF r.threw THEN lifecycle
                          ELSE MapSet(lifecycle, r.value, "live")

DeleteEntity32 ==
  \E entity \in EntityIds :
    /\ nextComponentIndex = NumTypes
    /\ LET r == deleteEntity32(This, entity)
       IN /\ Install(r.this)
          /\ ret' = Outcome("deleteEntity", <<>>, r)
          /\ lifecycle' = IF MapHas(lifecycle, entity)
                          THEN MapSet(lifecycle, entity, "deleted")
                          ELSE lifecycle

AddComponent32 ==
  \E entity \in EntityIds, componentType \in UsedTypes32 :
    /\ nextComponentIndex = NumTypes
    /\ LET r == addComponent32(This, entity, NewComponent32(componentType))
       IN /\ Install(r.this)
          /\ ret' = Outcome("addComponent", <<>>, r)
    /\ UNCHANGED lifecycle

RemoveComponent32 ==
  \E entity \in EntityIds, componentType \in UsedTypes32 :
    /\ nextComponentIndex = NumTypes
    /\ LET r == removeComponent32(This, entity, componentType)
       IN /\ Install(r.this)
          /\ ret' = Outcome("removeComponent", <<>>, r)
    /\ UNCHANGED lifecycle

QueryEntities32 ==
  \E componentTypes \in QueryLists32 :
    /\ nextComponentIndex = NumTypes
    /\ LET r == queryEntities32(This, componentTypes)
       IN /\ Install(r.this)
          /\ ret' = Outcome("queryEntities", componentTypes, r)
    /\ UNCHANGED lifecycle

Next32 ==
  \/ RegisterComponentType32
  \/ CreateEntity32
  \/ DeleteEntity32
  \/ AddComponent32
  \/ RemoveComponent32
  \/ QueryEntities32

Spec32 == Init32 /\ [][Next32]_vars

(***************************************************************************)
(* C21.  In the variant whose masks are native 32-bit JavaScript numbers   *)
(* (bit computed as 1 << index), the mask is wide enough for any number of *)
(* registered types: with more than 32 registered types, distinct types    *)
(* still map to distinct bits, so adding or removing a component of the    *)
(* type with index 32 never sets or clears the bit of the type with index  *)
(* 0, and queries requiring one of them never match entities holding only  *)
(* the other.                                                              *)
(***************************************************************************)
\* the classes with index 0 and index 32, once they are registered
TypesAtIndex(index) ==
  {c \in DOMAIN componentIndices : componentIndices[c] = index}

C21_MaskWideEnough ==
  nextComponentIndex > Int32Bits =>
    \A low \in TypesAtIndex(0), high \in TypesAtIndex(Int32Bits) :
      /\ ShiftOne32(componentIndices[low]) # ShiftOne32(componentIndices[high])
      /\ \A e \in EntityIds :
           LET lowBit == ShiftOne32(componentIndices[low])
               before == BitAnd32(MaskGetOrZero32(entityBitmasks, e), lowBit)
               added == addComponent32(This, e, NewComponent32(high)).this
               removed == removeComponent32(This, e, high).this
           IN /\ BitAnd32(MaskGetOrZero32(added.entityBitmasks, e), lowBit) = before
              /\ BitAnd32(MaskGetOrZero32(removed.entityBitmasks, e), lowBit) = before
      /\ \A i \in DOMAIN queryEntities32(This, <<low>>).value :
           hasComponent32(This, queryEntities32(This, <<low>>).value[i], low)
      /\ \A i \in DOMAIN queryEntities32(This, <<high>>).value :
           hasComponent32(This, queryEntities32(This, <<high>>).value[i], high)

(***************************************************************************)
(* C22.  The registry is fixed after construction: no createEntity,        *)
(* addComponent, removeComponent, deleteEntity or queryEntities call adds, *)
(* removes or renumbers a registry entry; in particular addComponent with  *)
(* a value of an unregistered type never registers that type (no lazy      *)
(* registration).                                                          *)
(***************************************************************************)
C22_RegistryStep ==
  /\ componentIndices' = componentIndices
  /\ nextComponentIndex' = nextComponentIndex
  /\ allowedComponents' = allowedComponents
  /\ \A e \in EntityIds, c \in ComponentInstances :
       ~MapHas(componentIndices, c.COMPONENT_TOKEN) =>
         LET r == addComponent(This, e, c)
         IN /\ r.threw
            /\ ~MapHas(r.this.componentIndices, c.COMPONENT_TOKEN)

C22_RegistryFixed == [][C22_RegistryStep]_vars

\* after two createEntity calls and a deleteEntity, an addComponent of the
\* unregistered Health has thrown and Health has no index
C22_Witness ==
  /\ ret.op = "addComponent"
  /\ ret.threw
  /\ nextEntityId = 2
  /\ 0 \in DeletedIds
  /\ ~MapHas(componentIndices, HealthName)
  /\ MapHas(componentStores, PositionName)

(***************************************************************************)
(* C23.  addComponent(e, v) of type t and removeComponent(e, t) change     *)
(* only the (e, t) store slot and bit index(t) of e's bitmask: every other *)
(* entity's store entries and bitmask, e's entries and bits for every      *)
(* other type, the id counter and the registry are unchanged.              *)
(***************************************************************************)
\* between the engine before and after a call on (e, t), all but the
\* (e, t) slot and bit index(t) of e's bitmask is the same
OnlySlotChanged(before, after, e, t) ==
  /\ after.nextEntityId = before.nextEntityId
  /\ after.componentIndices = before.componentIndices
  /\ after.nextComponentIndex = before.nextComponentIndex
  /\ after.allowedComponents = before.allowedComponents
  /\ \A other \in KnownIds \ {e} :
       /\ MaskHas(after.entityBitmasks, other) <=> MaskHas(before.entityBitmasks, other)
       /\ MaskGetOrZero(after.entityBitmasks, other)
            = MaskGetOrZero(before.entityBitmasks, other)
       /\ \A d \in ComponentDefs :
            getComponent(after, other, d) = getComponent(before, other, d)
  /\ \A d \in ComponentDefs \ {t} :
       getComponent(after, e, d) = getComponent(before, e, d)
  /\ LET bit == ShiftOne(before.componentIndices[t.type])
     IN BitAndNot(MaskGetOrZero(after.entityBitmasks, e), bit)
          = BitAndNot(MaskGetOrZero(before.entityBitmasks, e), bit)

C23_EveryCallOnASlot ==
  \A e \in EntityIds :
    /\ \A c \in ComponentInstances :
         MapHas(componentIndices, c.COMPONENT_TOKEN) =>
           OnlySlotChanged(This, addComponent(This, e, c).this, e,
                           defineComponent(c.COMPONENT_TOKEN))
    /\ \A t \in RegisteredDefs :
         OnlySlotChanged(This, removeComponent(This, e, t).this, e, t)

C23_OnlyTheSlotChanges == [](C23_EveryCallOnASlot)

\* a removeComponent has taken position from entity 0, which keeps
\* Position, while entity 1 keeps its position
C23_Witness ==
  /\ ret.op = "removeComponent"
  /\ ~ret.threw
  /\ MaskGetOrZero(entityBitmasks, 0) = 1
  /\ hasComponent(This, 0, Position)
  /\ ~hasComponent(This, 0, LowerPosition)
  /\ MaskGetOrZero(entityBitmasks, 1) = 2
  /\ hasComponent(This, 1, LowerPosition)

(***************************************************************************)
(* The engine in a multi-threaded host: one writer thread and one reader   *)
(* thread.  addComponent and removeComponent are two writes each, the      *)
(* store write and then the bitmask write, and the reader's query can run  *)
(* between them unless the host holds a lock for the duration of every     *)
(* mutating call and every query scan.  Here ret is the outcome of the     *)
(* last step with three more fields: locked (the host's discipline),       *)
(* pending (the writer's call in flight, with the engine it began on) and  *)
(* slot (the entity and type of the writer's last complete addComponent or *)
(* removeComponent, if no other mutating call came after it).              *)
(***************************************************************************)
\* addComponent up to the store write
addComponentStoreWrite(this, entity, component) ==
  LET tag == component.COMPONENT_TOKEN
      index == getComponentIndex(this, tag)
  IN IF index.threw THEN Thrown(this)
     ELSE
       LET stores == IF ~MapHas(this.componentStores, tag)
                     THEN MapSet(this.componentStores, tag, EmptyMap)
                     ELSE this.componentStores
       IN Returned(
            [this EXCEPT
               !.componentStores =
                  MapSet(stores, tag, MapSet(stores[tag], entity, component))],
            index.value)

\* A faulty second half of addComponent: the bitmask is read and written
\* back as it was.
addComponentNoBitmaskWrite(this, entity, index) ==
  Returned(
    [this EXCEPT
       !.entityBitmasks =
          MaskSet(@, entity, MaskGetOrZero(this.entityBitmasks, entity))],
    Undefined)

\* addComponent from the bitmask read on
addComponentBitmaskWrite(this, entity, index) ==
  LET currentBitmask == MaskGetOrZero(this.entityBitmasks, entity)
  IN Returned(
       [this EXCEPT
          !.entityBitmasks =
             MaskSet(@, entity, BitOr(currentBitmask, ShiftOne(index)))],
       Undefined)

\* removeComponent up to the store delete
removeComponentStoreWrite(this, entity, component) ==
  LET index == getComponentIndex(this, component.type)
  IN IF index.threw THEN Thrown(this)
     ELSE
       Returned(
         [this EXCEPT
            !.componentStores =
               IF MapHas(this.componentStores, component.type)
               THEN MapSet(this.componentStores, component.type,
                           MapDelete(this.componentStores[component.type], entity))
               ELSE this.componentStores],
         index.value)

\* removeComponent from the bitmask read on
removeComponentBitmaskWrite(this, entity, index) ==
  LET currentBitmask == MaskGetOrZero(this.entityBitmasks, entity)
  IN Returned(
       [this EXCEPT
          !.entityBitmasks =
             MaskSet(@, entity, BitAndNot(currentBitmask, ShiftOne(index)))],
       Undefined)

\* the outcome of a step of a thread
StepOutcome(op, arguments, r, pending, slot) ==
  [op |-> op, arguments |-> arguments, threw |-> r.threw, value |-> r.value,
   locked |-> ret.locked, pending |-> pending, slot |-> slot]

\* the writer calls createEntity while nextEntityId < MaxWriterEntities
MaxWriterEntities == 1

\* the queries of the reader thread
ReaderQueries == {<<Position>>, <<ArrayOf(<<LowerPosition>>)>>}

InitThreads ==
  /\ LET ecs == ECSCreate(AllowedComponents)
     IN /\ componentStores = ecs.componentStores
        /\ componentIndices = ecs.componentIndices
        /\ entityBitmasks = ecs.entityBitmasks
        /\ nextComponentIndex = ecs.nextComponentIndex
        /\ nextEntityId = ecs.nextEntityId
        /\ allowedComponents = ecs.allowedComponents
  /\ lifecycle = EmptyMap
  /\ \E locked \in BOOLEAN :
       ret = [op |-> "create", arguments |-> <<>>, threw |-> FALSE,
              value |-> Undefined, locked |-> locked, pending |-> Undefined,
              slot |-> Undefined]

\* the writer: createEntity and deleteEntity, whole calls
WriterCreateEntity ==
  \E components \in ComponentLists :
    /\ ret.pending = Undefined
    /\ nextEntityId < MaxWriterEntities
    /\ LET r == createEntity(This, components)
       IN /\ Install(r.this)
          /\ ret' = StepOutcome("createEntity", <<>>, r, Undefined, Undefined)
          /\ lifecycle' = IF r.threw THEN lifecycle
                          ELSE MapSet(lifecycle, r.value, "live")

WriterDeleteEntity ==
  \E entity \in EntityIds :
    /\ ret.pending = Undefined
    /\ LET r == deleteEntity(This, entity)
       IN /\ Install(r.this)
          /\ ret' = StepOutcome("deleteEntity", <<>>, r, Undefined, Undefined)
          /\ lifecycle' = IF MapHas(lifecycle, entity)
                          THEN MapSet(lifecycle, entity, "deleted")
                          ELSE lifecycle

\* the writer: the first write of addComponent; a call that throws is over
WriterAddStore ==
  \E entity \in EntityIds, component \in ComponentInstances :
    /\ ret.pending = Undefined
    /\ LET r == addComponentStoreWrite(This, entity, component)
       IN /\ Install(r.this)
          /\ ret' = IF r.threw
                    THEN StepOutcome("addComponent", <<>>, Thrown(This),
                                     Undefined, ret.slot)
                    ELSE StepOutcome("addComponent.store", <<>>,
                                     Returned(This, Undefined),
                                     [op |-> "addComponent", entity |-> entity,
                                      argument |-> component, index |-> r.value,
                                      before |-> This],
                                     Undefined)
    /\ UNCHANGED lifecycle

\* the writer: the second write of addComponent
WriterAddBitmask ==
  /\ ret.pending # Undefined
  /\ ret.pending.op = "addComponent"
  /\ LET r == addComponentBitmaskWrite(This, ret.pending.entity, ret.pending.index)
     IN /\ Install(r.this)
        /\ ret' = StepOutcome("addComponent", <<>>, r, Undefined,
                              [entity |-> ret.pending.entity,
                               type |-> defineComponent(
                                          ret.pending.argument.COMPONENT_TOKEN)])
  /\ UNCHANGED lifecycle

WriterRemoveStore ==
  \E entity \in EntityIds, component \in ComponentDefs :
    /\ ret.pending = Undefined
    /\ LET r == removeComponentStoreWrite(This, entity, component)
       IN /\ Install(r.this)
          /\ ret' = IF r.threw
                    THEN StepOutcome("removeComponent", <<>>, Thrown(This),
                                     Undefined, ret.slot)
                    ELSE StepOutcome("removeComponent.store", <<>>,
                                     Returned(This, Undefined),
                                     [op |-> "removeComponent", entity |-> entity,
                                      argument |-> component, index |-> r.value,
                                      before |-> This],
                                     Undefined)
    /\ UNCHANGED lifecycle

WriterRemoveBitmask ==
  /\ ret.pending # Undefined
  /\ ret.pending.op = "removeComponent"
  /\ LET r == removeComponentBitmaskWrite(This, ret.pending.entity, ret.pending.index)
     IN /\ Install(r.this)
        /\ ret' = StepOutcome("removeComponent", <<>>, r, Undefined,
                              [entity |-> ret.pending.entity,
                               type |-> ret.pending.argument])
  /\ UNCHANGED lifecycle

\* the reader: a query scan; under the lock it waits for the writer's call
ReaderQueryEntities ==
  \E arguments \in ReaderQueries :
    /\ ret.locked => ret.pending = Undefined
    /\ LET r == queryEntities(This, arguments)
       IN /\ Install(r.this)
          /\ ret' = StepOutcome("queryEntities", arguments, r, ret.pending, ret.slot)
    /\ UNCHANGED lifecycle

NextThreads ==
  \/ WriterCreateEntity
  \/ WriterDeleteEntity
  \/ WriterAddStore
  \/ WriterAddBitmask
  \/ WriterRemoveStore
  \/ WriterRemoveBitmask
  \/ ReaderQueryEntities

SpecThreads == InitThreads /\ [][NextThreads]_vars

(***************************************************************************)
(* C24.  If a reader runs between the two writes of an in-flight           *)
(* addComponent or removeComponent (store write first, bitmask write       *)
(* second), it can observe a state that violates I1; when every mutating   *)
(* call and every query scan is executed atomically (single-writer lock    *)
(* discipline), no query ever observes a state that violates I1 as a       *)
(* result of interleaving: under the lock a query runs only between whole  *)
(* calls, the two writes of a call amount to the whole method, and the     *)
(* slot of the writer's last addComponent or removeComponent satisfies I1  *)
(* when a query observes it.                                               *)
(***************************************************************************)
\* I1 for one entity and one registered type
I1AtSlot(this, e, t) ==
  hasComponent(this, e, t)
    <=> BitIsSet(MaskGetOrZero(this.entityBitmasks, e), this.componentIndices[t.type])

\* I1 for every entity and registered type
I1Holds(this) ==
  \A e \in EntityIds, t \in RegisteredDefs : I1AtSlot(this, e, t)

C24_QueryUnderLock ==
  (ret.op = "queryEntities" /\ ret.locked) =>
    /\ ret.pending = Undefined
    /\ ret.slot # Undefined => I1AtSlot(This, ret.slot.entity, ret.slot.type)

\* the second write completes the method: the engine is the one the whole
\* addComponent or removeComponent gives on the engine the call began on
C24_TwoWritesAreTheCall ==
  (ret.pending # Undefined /\ ret'.pending = Undefined) =>
    LET call == ret.pending
    IN This' = IF call.op = "addComponent"
               THEN addComponent(call.before, call.entity, call.argument).this
               ELSE removeComponent(call.before, call.entity, call.argument).this

C24_LockDiscipline == [](C24_QueryUnderLock) /\ [][C24_TwoWritesAreTheCall]_vars

\* without the lock, a query for Position has run between the two writes
\* of addComponent(0, Position) on the live entity 0: I1 held when the call
\* began, and the reader sees the component in the store, the bit clear
\* and entity 0 missing from its result
C24_Witness ==
  /\ ~ret.locked
  /\ ret.op = "queryEntities"
  /\ ret.arguments = <<Position>>
  /\ ret.pending # Undefined
  /\ ret.pending.op = "addComponent"
  /\ ret.pending.entity = 0
  /\ ret.pending.argument.COMPONENT_TOKEN = PositionName
  /\ 0 \in LiveIds
  /\ I1Holds(ret.pending.before)
  /\ hasComponent(This, 0, Position)
  /\ ~I1AtSlot(This, 0, Position)
  /\ 0 \notin IdsOf(ret.value)

(***************************************************************************)
(* Two engines in one program.  Each variable holds, for each of the two   *)
(* objects, the object's field of that name; lifecycle counts the          *)
(* createEntity calls made on each object.                                 *)
(***************************************************************************)
Instances == {1, 2}

\* each object's createEntity is called while its nextEntityId is below this
MaxInstanceEntities == 1

InstanceEntityIds == 0 .. (MaxInstanceEntities - 1)

\* the arguments of the two ECS.create calls
AllowedOf(i) == IF i = 1 THEN <<Position, LowerPosition>> ELSE <<LowerPosition>>

\* the object i
ThisOf(i) ==
  [ componentStores |-> componentStores[i],
    componentIndices |-> componentIndices[i],
    entityBitmasks |-> entityBitmasks[i],
    nextComponentIndex |-> nextComponentIndex[i],
    nextEntityId |-> nextEntityId[i],
    allowedComponents |-> allowedComponents[i] ]

\* A faulty engine: the id counter is one for all objects (a static field).
InstallSharedCounter(i, this) ==
  /\ componentStores' = [componentStores EXCEPT ![i] = this.componentStores]
  /\ componentIndices' = [componentIndices EXCEPT ![i] = this.componentIndices]
  /\ entityBitmasks' = [entityBitmasks EXCEPT ![i] = this.entityBitmasks]
  /\ nextComponentIndex' = [nextComponentIndex EXCEPT ![i] = this.nextComponentIndex]
  /\ nextEntityId' = [j \in Instances |-> this.nextEntityId]
  /\ allowedComponents' = [allowedComponents EXCEPT ![i] = this.allowedComponents]

\* the fields a call on the object i has assigned are the object's own
InstallAt(i, this) ==
  /\ componentStores' = [componentStores EXCEPT ![i] = this.componentStores]
  /\ componentIndices' = [componentIndices EXCEPT ![i] = this.componentIndices]
  /\ entityBitmasks' = [entityBitmasks EXCEPT ![i] = this.entityBitmasks]
  /\ nextComponentIndex' = [nextComponentIndex EXCEPT ![i] = this.nextComponentIndex]
  /\ nextEntityId' = [nextEntityId EXCEPT ![i] = this.nextEntityId]
  /\ allowedComponents' = [allowedComponents EXCEPT ![i] = this.allowedComponents]

OutcomeAt(i, op, r) ==
  [instance |-> i, op |-> op, arguments |-> <<>>, threw |-> r.threw,
   value |-> r.value]

InitInstances ==
  /\ componentStores = [i \in Instances |-> ECSCreate(AllowedOf(i)).componentStores]
  /\ componentIndices = [i \in Instances |-> ECSCreate(AllowedOf(i)).componentIndices]
  /\ entityBitmasks = [i \in Instances |-> ECSCreate(AllowedOf(i)).entityBitmasks]
  /\ nextComponentIndex =
       [i \in Instances |-> ECSCreate(AllowedOf(i)).nextComponentIndex]
  /\ nextEntityId = [i \in Instances |-> ECSCreate(AllowedOf(i)).nextEntityId]
  /\ allowedComponents =
       [i \in Instances |-> ECSCreate(AllowedOf(i)).allowedComponents]
  /\ lifecycle = [i \in Instances |-> 0]
  /\ ret = [instance |-> 0, op |-> "create", arguments |-> <<>>,
            threw |-> FALSE, value |-> Undefined]

CreateEntityAt ==
  \E i \in Instances,
     components \in {<<>>, <<ComponentCreate(LowerPosition, 1)>>,
                     <<ComponentCreate(Position, 1)>>} :
    /\ nextEntityId[i] < MaxInstanceEntities
    /\ LET r == createEntity(ThisOf(i), components)
       IN /\ InstallAt(i, r.this)
          /\ ret' = OutcomeAt(i, "createEntity", r)
    /\ lifecycle' = [lifecycle EXCEPT ![i] = @ + 1]

DeleteEntityAt ==
  \E i \in Instances, entity \in InstanceEntityIds :
    /\ LET r == deleteEntity(ThisOf(i), entity)
       IN /\ InstallAt(i, r.this)
          /\ ret' = OutcomeAt(i, "deleteEntity", r)
    /\ UNCHANGED lifecycle

AddComponentAt ==
  \E i \in Instances, entity \in InstanceEntityIds,
     component \in {ComponentCreate(Position, 1), ComponentCreate(LowerPosition, 1)} :
    /\ LET r == addComponent(ThisOf(i), entity, component)
       IN /\ InstallAt(i, r.this)
          /\ ret' = OutcomeAt(i, "addComponent", r)
    /\ UNCHANGED lifecycle

RemoveComponentAt ==
  \E i \in Instances, entity \in InstanceEntityIds,
     component \in {Position, LowerPosition} :
    /\ LET r == removeComponent(ThisOf(i), entity, component)
       IN /\ InstallAt(i, r.this)
          /\ ret' = OutcomeAt(i, "removeComponent", r)
    /\ UNCHANGED lifecycle

QueryEntitiesAt ==
  \E i \in Instances :
    /\ LET r == queryEntities(ThisOf(i), <<LowerPosition>>)
       IN /\ InstallAt(i, r.this)
          /\ ret' = OutcomeAt(i, "queryEntities", r)
    /\ UNCHANGED lifecycle

NextInstances ==
  \/ CreateEntityAt
  \/ DeleteEntityAt
  \/ AddComponentAt
  \/ RemoveComponentAt
  \/ QueryEntitiesAt

SpecInstances == InitInstances /\ [][NextInstances]_vars

(***************************************************************************)
(* C25.  Two engine instances are independent: each has its own id counter *)
(* starting at 0 and its own registry indices starting at 0, and any       *)
(* operation on one instance leaves the other instance's counter,          *)
(* registry, stores and bitmasks unchanged.                                *)
(***************************************************************************)
\* each object's counter is the number of createEntity calls made on it,
\* and each object's registry numbers its own types from 0
C25_OwnCounterAndRegistry ==
  \A i \in Instances :
    /\ nextEntityId[i] = lifecycle[i]
    /\ DOMAIN componentIndices[i]
         = {AllowedOf(i)[k].type : k \in 1 .. Len(AllowedOf(i))}
    /\ \A k \in 1 .. Len(AllowedOf(i)) :
         componentIndices[i][AllowedOf(i)[k].type] = k - 1
    /\ nextComponentIndex[i] = Len(AllowedOf(i))
    /\ (ret.op = "createEntity" /\ ret.instance = i /\ ~ret.threw)
         => ret.value = lifecycle[i] - 1

\* a call on one object leaves the other object as it was
C25_OtherUnchanged ==
  \A j \in Instances \ {ret'.instance} : ThisOf(j)' = ThisOf(j)

C25_InstancesIndependent ==
  [](C25_OwnCounterAndRegistry) /\ [][C25_OtherUnchanged]_vars

\* object 1 has created an entity with a Position and object 2 has just
\* created its first entity, with id 0 too, which holds a position
C25_Witness ==
  /\ ret.op = "createEntity"
  /\ ret.instance = 2
  /\ ~ret.threw
  /\ ret.value = 0
  /\ nextEntityId = [i \in Instances |-> 1]
  /\ hasComponent(ThisOf(1), 0, Position)
  /\ ~hasComponent(ThisOf(1), 0, LowerPosition)
  /\ hasComponent(ThisOf(2), 0, LowerPosition)

(***************************************************************************)
(* C26.  queryEntities is a pure read: a query that succeeds leaves the id *)
(* counter, registry, every store and every bitmask unchanged, so running  *)
(* the same query twice in a row with no mutation in between returns the   *)
(* same sequence of ids and the same records.                              *)
(***************************************************************************)
C26_QueryStep ==
  (ret'.op = "queryEntities" /\ ~ret'.threw) =>
    /\ engine' = engine
    /\ LET again == queryEntities(This', ret'.arguments)
       IN /\ ~again.threw
          /\ again.value = ret'.value
          /\ again.this = This'

C26_QueryIsPureRead == [][C26_QueryStep]_vars

\* a query for Position has returned two entities with their records, and
\* the engine still holds both components
C26_Witness ==
  /\ ret.op = "queryEntities"
  /\ ~ret.threw
  /\ ret.arguments = <<Position>>
  /\ Len(ret.value) = 2
  /\ \A e \in EntityIds : hasComponent(This, e, Position)

(***************************************************************************)
(* C27.  The two call shapes of queryEntities are equivalent: in every     *)
(* reachable state and for every non-empty list of registered types,       *)
(* queryEntities(d1,...,dn) (rest arguments), queryEntities([d1,...,dn])   *)
(* and queryEntities([d1,...,dn], []) return the same sequence of ids and  *)
(* the same records.                                                       *)
(***************************************************************************)
C27_SameResults ==
  \A required \in DefLists \ {<<>>} :
    AllRegistered(required) =>
      LET rest == queryEntities(This, required)
          array == queryEntities(This, <<ArrayOf(required)>>)
          arrays == queryEntities(This, <<ArrayOf(required), ArrayOf(<<>>)>>)
      IN /\ ~rest.threw /\ ~array.threw /\ ~arrays.threw
         /\ rest.value = array.value
         /\ arrays.value = array.value

C27_CallShapesEquivalent == [](C27_SameResults)

\* entity 0 holds Position and position, entity 1 only position, and the
\* last call was a query: the calls for (Position, position) in either
\* shape return entity 0 alone
C27_Witness ==
  /\ ret.op = "queryEntities"
  /\ MaskGetOrZero(entityBitmasks, 0) = 3
  /\ MaskGetOrZero(entityBitmasks, 1) = 2
  /\ IdsOf(queryEntities(This, <<Position, LowerPosition>>).value) = {0}
  /\ IdsOf(queryEntities(This, <<ArrayOf(<<Position, LowerPosition>>)>>).value) = {0}

(***************************************************************************)
(* C28.  For a live entity e that does not hold type t, addComponent(e, v) *)
(* of type t followed by removeComponent(e, t) restores the observable     *)
(* state: hasComponent, getComponent and every query return the same       *)
(* results as before the two calls (a lazily created but empty store is    *)
(* indistinguishable from no store).                                       *)
(***************************************************************************)
\* the queries compared: requiring t, with t optional, and the client's
QueriesObserved(t) ==
  {<<t>>, <<ArrayOf(<<>>), ArrayOf(<<t>>)>>, <<Position, LowerPosition>>}

C28_AddThenRemoveRestores ==
  \A e \in LiveIds, t \in RegisteredDefs :
    ~hasComponent(This, e, t) =>
      LET added == addComponent(This, e, ComponentCreate(t, 1))
          removed == removeComponent(added.this, e, t)
          after == removed.this
      IN /\ ~added.threw /\ ~removed.threw
         /\ hasComponent(added.this, e, t)
         /\ \A o \in KnownIds, d \in ComponentDefs :
              /\ hasComponent(after, o, d) = hasComponent(This, o, d)
              /\ getComponent(after, o, d) = getComponent(This, o, d)
         /\ \A arguments \in QueriesObserved(t) :
              queryEntities(after, arguments).value
                = queryEntities(This, arguments).value
         /\ after.entityBitmasks = entityBitmasks
         /\ after.componentIndices = componentIndices
         /\ after.nextEntityId = nextEntityId

\* a removeComponent has left the live entity 0 without position, whose
\* store is there and empty, while entity 0 keeps Position
C28_Witness ==
  /\ ret.op = "removeComponent"
  /\ ~ret.threw
  /\ 0 \in LiveIds
  /\ MapHas(componentStores, LowerPositionName)
  /\ DOMAIN componentStores[LowerPositionName] = {}
  /\ hasComponent(This, 0, Position)
  /\ MaskGetOrZero(entityBitmasks, 0) = 1

(***************************************************************************)
(* C29.  In every reachable state a query result contains each entity id   *)
(* at most once, and it contains only ids that currently have a bitmask    *)
(* entry; an entity with no components is in no result of a query with a   *)
(* non-empty required list.                                                *)
(***************************************************************************)
C29_IdsOfEveryResult ==
  \A required \in DefLists :
    LET r == queryEntities(This, <<ArrayOf(required)>>)
    IN ~r.threw =>
         /\ Cardinality(IdsOf(r.value)) = Len(r.value)
         /\ IdsOf(r.value) \subseteq MaskKeys(entityBitmasks)
         /\ required # <<>> => \A e \in IdsOf(r.value) : HasStoreEntry(e)

C29_ResultIds == [](C29_IdsOfEveryResult)

\* a query for Position has returned entity 0 and not the live entity 1,
\* which has a bitmask entry and no component
C29_Witness ==
  /\ ret.op = "queryEntities"
  /\ ~ret.threw
  /\ ret.arguments = <<Position>>
  /\ IdsOf(ret.value) = {0}
  /\ 1 \in LiveIds
  /\ MaskHas(entityBitmasks, 1)
  /\ ~HasStoreEntry(1)

====
